---- MODULE Spec2Model ----
(***************************************************************************)
(* A model of app/clients/claude_client.py: ClaudeClient.__init__ and the  *)
(* async generator ClaudeClient.stream_chat (request encoding, streaming   *)
(* and non-streaming response normalisation).                              *)
(*                                                                         *)
(* Bytes and text are sequences of tokens.  A token is a tuple whose first *)
(* element is its kind:                                                    *)
(*   <<"nl">>        the newline character                                 *)
(*   <<"sp">>        a blank                                               *)
(*   <<"data">>      the six characters 'data: '                           *)
(*   <<"done">>      the six characters '[DONE]'                           *)
(*   <<"txt", s>>    other characters s that are not a JSON document       *)
(*   <<"json", v>>   the serialisation of the JSON value v                 *)
(*   <<"bad">>       bytes that are not valid UTF-8                        *)
(* A JSON value is a tuple <<kind, payload>>: <<"null">>, <<"str", s>>,    *)
(* <<"num", n>>, <<"arr", sequence>>, <<"obj", record>>.                   *)
(***************************************************************************)
EXTENDS Integers, Sequences, FiniteSets, TLC

(* ------------------------------ JSON values ---------------------------- *)

Null == <<"null">>
Str(s) == <<"str", s>>
Num(n) == <<"num", n>>
Arr(s) == <<"arr", s>>
Obj(f) == <<"obj", f>>
EmptyObj == <<"obj", <<>>>>

\* isinstance(v, dict): only a dict has the method .get
IsObj(v) == v[1] = "obj"

\* v == s for a str literal s
IsStr(v, s) == v[1] = "str" /\ v[2] = s

\* dict.get(k, d)
Get(v, k, d) == IF k \in DOMAIN v[2] THEN v[2][k] ELSE d

\* Python truth value of a parsed JSON value
Truthy(v) ==
  CASE v[1] = "null" -> FALSE
    [] v[1] = "str" -> v[2] # ""
    [] v[1] = "num" -> v[2] # 0
    [] v[1] = "arr" -> Len(v[2]) > 0
    [] v[1] = "obj" -> DOMAIN v[2] # {}

\* v[0] is defined for a truthy list or str (num: TypeError, dict: KeyError)
HasItem0(v) == v[1] \in {"arr", "str"}

\* v[0]; the first character of a str is again a str
Item0(v) == IF v[1] = "arr" THEN v[2][1] ELSE v

(* ------------------------------ text ----------------------------------- *)

NL == <<"nl">>
SP == <<"sp">>
DATA == <<"data">>
DONE == <<"done">>
BAD == <<"bad">>
Txt(s) == <<"txt", s>>
Json(v) == <<"json", v>>

IsSpace(t) == t[1] \in {"nl", "sp"}

\* bytes.decode('utf-8') succeeds
Decodable(chunk) == \A i \in 1..Len(chunk) : chunk[i][1] # "bad"

RECURSIVE LStrip(_)
LStrip(s) == IF s # <<>> /\ IsSpace(Head(s)) THEN LStrip(Tail(s)) ELSE s

RECURSIVE RStrip(_)
RStrip(s) ==
  IF s # <<>> /\ IsSpace(s[Len(s)]) THEN RStrip(SubSeq(s, 1, Len(s) - 1)) ELSE s

\* str.strip()
Strip(s) == RStrip(LStrip(s))

\* str.split('\n'): the pieces between newlines, empty pieces included
RECURSIVE SplitFrom(_, _)
SplitFrom(s, cur) ==
  IF s = <<>> THEN <<cur>>
  ELSE IF Head(s)[1] = "nl" THEN <<cur>> \o SplitFrom(Tail(s), <<>>)
  ELSE SplitFrom(Tail(s), Append(cur, Head(s)))

Split(s) == SplitFrom(s, <<>>)

\* line.startswith('data: ')
StartsWithData(line) == line # <<>> /\ line[1][1] = "data"

\* json.loads(text): <<"ok", value>>, or <<"err">> for json.JSONDecodeError.
\* Whitespace around the one document is accepted.
JsonLoads(text) ==
  LET t == Strip(text)
  IN IF Len(t) = 1 /\ t[1][1] = "json" THEN <<"ok", t[1][2]>> ELSE <<"err">>

(* ------------------------- response normalisation ---------------------- *)

OPENAI_COMPATIBLE_PROVIDERS == {"openrouter", "oneapi"}

\* What handling one frame or body does: yield an event, nothing, or a log
\* record of the given level.
Yield(content) == [act |-> "yield", content |-> content]
Nothing == [act |-> "none", content |-> Null]
Warning == [act |-> "warning", content |-> Null]
ErrorJson == [act |-> "error_json", content |-> Null]
ErrorExc == [act |-> "error_exc", content |-> Null]

\* Streaming, OpenAI-compatible branch: choices[0].delta.content.
\* A .get on a value that is no dict, or an index that fails, raises inside
\* the try and is logged by `except Exception`.
StreamOpenAI(data) ==
  IF ~IsObj(data) THEN ErrorExc
  ELSE LET choices == Get(data, "choices", Arr(<<>>))
       IN IF ~Truthy(choices) THEN Warning
          ELSE IF ~HasItem0(choices) \/ ~IsObj(Item0(choices)) THEN ErrorExc
          ELSE LET delta == Get(Item0(choices), "delta", EmptyObj)
               IN IF ~IsObj(delta) THEN ErrorExc
                  ELSE LET content == Get(delta, "content", Str(""))
                       IN IF Truthy(content) THEN Yield(content) ELSE Nothing

\* Variant: the native branch without its `if content:` test.
StreamAnthropic_NoContentTest(data) ==
  IF ~IsObj(data) THEN ErrorExc
  ELSE IF ~IsStr(Get(data, "type", Null), "content_block_delta") THEN Nothing
  ELSE LET delta == Get(data, "delta", EmptyObj)
       IN IF ~IsObj(delta) THEN ErrorExc
          ELSE Yield(Get(delta, "text", Str("")))

\* Streaming, native branch: type == 'content_block_delta', then delta.text.
StreamAnthropic(data) ==
  IF ~IsObj(data) THEN ErrorExc
  ELSE IF ~IsStr(Get(data, "type", Null), "content_block_delta") THEN Nothing
  ELSE LET delta == Get(data, "delta", EmptyObj)
       IN IF ~IsObj(delta) THEN ErrorExc
          ELSE LET content == Get(delta, "text", Str(""))
               IN IF Truthy(content) THEN Yield(content) ELSE Nothing

\* Variant: a frame the OpenAI branch finds no choices in is handed to the
\* native branch, and the other way round.
StreamDispatch_FallThrough(prov, compat, data) ==
  IF compat
  THEN IF StreamOpenAI(data).act = "warning" THEN StreamAnthropic(data)
       ELSE StreamOpenAI(data)
  ELSE IF StreamAnthropic(data).act = "none" THEN StreamOpenAI(data)
       ELSE StreamAnthropic(data)

\* The dispatch of the streaming branch on the client's fields.
StreamDispatch(prov, compat, data) ==
  IF compat THEN StreamOpenAI(data)
  ELSE IF prov = "anthropic" THEN StreamAnthropic(data)
  ELSE ErrorExc

\* Variant: the payload compared without .strip().
IsDoneToken_NoStrip(json_str) == json_str = <<DONE>>

\* The termination test of a data line's payload.
IsDoneToken(json_str) == Strip(json_str) = <<DONE>>

\* Variant: no handler for json.JSONDecodeError around the parse.
StreamFrame_NoJsonHandler(prov, compat, json_str) ==
  LET r == JsonLoads(json_str)
  IN IF r[1] = "err" THEN [act |-> "raise", content |-> Str("JSONDecodeError")]
     ELSE StreamDispatch(prov, compat, r[2])

\* One 'data: ' line that is not the termination token: parse, dispatch.
StreamFrame(prov, compat, json_str) ==
  LET r == JsonLoads(json_str)
  IN IF r[1] = "err" THEN ErrorJson ELSE StreamDispatch(prov, compat, r[2])

\* Non-streaming, OpenAI-compatible branch: choices[0].message.content.
BodyOpenAI(response) ==
  IF ~IsObj(response) THEN ErrorExc
  ELSE LET choices == Get(response, "choices", Arr(<<>>))
       IN IF ~Truthy(choices) THEN Warning
          ELSE IF ~HasItem0(choices) \/ ~IsObj(Item0(choices)) THEN ErrorExc
          ELSE LET message == Get(Item0(choices), "message", EmptyObj)
               IN IF ~IsObj(message) THEN ErrorExc
                  ELSE LET content == Get(message, "content", Str(""))
                       IN IF Truthy(content) THEN Yield(content) ELSE Nothing

\* Non-streaming, native branch: content[0].text.
BodyAnthropic(response) ==
  IF ~IsObj(response) THEN ErrorExc
  ELSE LET content_list == Get(response, "content", Arr(<<>>))
       IN IF ~Truthy(content_list) THEN Warning
          ELSE IF ~HasItem0(content_list) \/ ~IsObj(Item0(content_list))
               THEN ErrorExc
          ELSE LET content == Get(Item0(content_list), "text", Str(""))
               IN IF Truthy(content) THEN Yield(content) ELSE Nothing

\* The dispatch of the non-streaming branch: on the provider list, not on
\* the is_openai_compatible field.
BodyDispatch(prov, compat, response) ==
  IF prov \in OPENAI_COMPATIBLE_PROVIDERS THEN BodyOpenAI(response)
  ELSE IF prov = "anthropic" THEN BodyAnthropic(response)
  ELSE ErrorExc

\* An exception that no handler of stream_chat catches.
Raise(name) == [act |-> "raise", content |-> Str(name)]

\* Variant: no handler for json.JSONDecodeError around the parse.
BodyChunk_NoJsonHandler(prov, compat, chunk, response) ==
  IF ~Decodable(chunk)
  THEN IF response = <<>> THEN Raise("UnboundLocalError") ELSE ErrorExc
  ELSE LET r == JsonLoads(chunk)
       IN IF r[1] = "err" THEN Raise("JSONDecodeError")
          ELSE BodyDispatch(prov, compat, r[2])

\* Non-streaming, one chunk: the try block and its two handlers.  `response`
\* is <<>> while the local is unbound and <<v>> once json.loads returned v.
\* The `except Exception` handler formats `response`: with the local still
\* unbound that raises UnboundLocalError out of the handler.
BodyChunk(prov, compat, chunk, response) ==
  IF ~Decodable(chunk)
  THEN IF response = <<>> THEN Raise("UnboundLocalError") ELSE ErrorExc
  ELSE LET r == JsonLoads(chunk)
       IN IF r[1] = "err" THEN ErrorJson ELSE BodyDispatch(prov, compat, r[2])

\* The value of `response` after the try block of one chunk.
BodyResponse(chunk, response) ==
  IF Decodable(chunk) /\ JsonLoads(chunk)[1] = "ok"
  THEN <<JsonLoads(chunk)[2]>> ELSE response

(* ------------------------------ request encoding ----------------------- *)

\* Sampling parameters are rationals <<numerator, denominator>>, reduced,
\* with a positive denominator.
One == <<1, 1>>
Lt0(t) == t[1] < 0
Gt1(t) == t[1] > t[2]

\* Variant: the lower bound tested with <= instead of <.
Temperature_ZeroClamped(t) == IF t[1] <= 0 \/ Gt1(t) THEN One ELSE t

\* 1 if model_arg[0] < 0 or model_arg[0] > 1 else model_arg[0]
Temperature(t) == IF Lt0(t) \/ Gt1(t) THEN One ELSE t

\* Variant: the override applied to every OpenAI-compatible provider.
EffectiveModel_AllCompatible(prov, m) ==
  IF prov \in OPENAI_COMPATIBLE_PROVIDERS THEN "anthropic/claude-3.5-sonnet" ELSE m

\* The OpenRouter special case: the model name actually sent.
EffectiveModel(prov, m) ==
  IF prov = "openrouter" THEN "anthropic/claude-3.5-sonnet" ELSE m

ApiKey == "sk-key"

AnthropicHeaders(strm) ==
  ("x-api-key" :> ApiKey) @@ ("anthropic-version" :> "2023-06-01")
  @@ ("content-type" :> "application/json")
  @@ ("accept" :> IF strm THEN "text/event-stream" ELSE "application/json")

\* Variant: the native payload built like the OpenAI-compatible one, with
\* the two penalties.
AnthropicData_WithPenalties(m, msgs, marg, strm) ==
  [model |-> m, messages |-> msgs, max_tokens |-> 8192, stream |-> strm,
   temperature |-> Temperature(marg[1]), top_p |-> marg[2],
   presence_penalty |-> marg[3], frequency_penalty |-> marg[4]]

AnthropicData(m, msgs, marg, strm) ==
  [model |-> m, messages |-> msgs, max_tokens |-> 8192, stream |-> strm,
   temperature |-> Temperature(marg[1]), top_p |-> marg[2]]

OpenAIHeaders(prov) ==
  ("Authorization" :> "Bearer sk-key") @@ ("Content-Type" :> "application/json")
  @@ (IF prov = "openrouter"
      THEN ("HTTP-Referer" :> "https://github.com/ErlichLiu/DeepClaude")
           @@ ("X-Title" :> "DeepClaude")
      ELSE <<>>)

OpenAIData(m, msgs, marg, strm) ==
  [model |-> m, messages |-> msgs, stream |-> strm,
   temperature |-> Temperature(marg[1]), top_p |-> marg[2],
   presence_penalty |-> marg[3], frequency_penalty |-> marg[4]]

\* Variant: the final else of the encoder does not raise.
Supported_NoElse(prov, compat) == TRUE

\* The provider passes the encoder's if/elif (otherwise ValueError).
Supported(prov, compat) == prov = "anthropic" \/ compat

\* The (headers, data) handed to _make_request.
Encode(prov, compat, msgs, marg, m, strm) ==
  IF prov = "anthropic"
  THEN [headers |-> AnthropicHeaders(strm),
        data |-> AnthropicData(EffectiveModel(prov, m), msgs, marg, strm)]
  ELSE [headers |-> OpenAIHeaders(prov),
        data |-> OpenAIData(EffectiveModel(prov, m), msgs, marg, strm)]

\* ClaudeClient.__init__: the value of the field is_openai_compatible.
InitCompatible(prov, flag) == flag \/ prov \in OPENAI_COMPATIBLE_PROVIDERS

(* ------------------------------ inputs --------------------------------- *)

\* JSON documents a provider can send.
NatDelta(x) ==
  Obj([type |-> Str("content_block_delta"), delta |-> Obj([text |-> Str(x)])])
OaiDelta(x) == Obj([choices |-> Arr(<<Obj([delta |-> Obj([content |-> Str(x)])])>>)])
OaiBody(x) == Obj([choices |-> Arr(<<Obj([message |-> Obj([content |-> Str(x)])])>>)])
NatBody(x) == Obj([content |-> Arr(<<Obj([text |-> Str(x)])>>)])
MetaFrame == Obj([type |-> Str("message_start")])
NoChoices == Obj([choices |-> Arr(<<>>)])
NoContent == Obj([content |-> Arr(<<>>)])
NotObject == Arr(<<Str("a")>>)
ChoiceNotObject == Obj([choices |-> Arr(<<Str("a")>>)])
NatDeltaNull == Obj([type |-> Str("content_block_delta"), delta |-> Null])
OaiDeltaNull == Obj([choices |-> Arr(<<Obj([delta |-> Null])>>)])
NatTextNull ==
  Obj([type |-> Str("content_block_delta"), delta |-> Obj([text |-> Null])])
OaiContentNull == Obj([choices |-> Arr(<<Obj([delta |-> Obj([content |-> Null])])>>)])
NatNoDelta == Obj([type |-> Str("content_block_delta")])
OaiNoDelta == Obj([choices |-> Arr(<<Obj([finish_reason |-> Str("stop")])>>)])

\* Frames whose content is missing, null or the empty string.
EmptyFrames ==
  <<DATA, Json(NatDelta("")), NL, DATA, Json(OaiDelta("")), NL,
    DATA, Json(NatTextNull), NL, DATA, Json(OaiContentNull), NL,
    DATA, Json(NatNoDelta), NL, DATA, Json(OaiNoDelta), NL>>

\* A frame cut by the chunk boundary, then a termination line cut by the
\* next boundary, each followed by whole frames.
SplitFrameHead == <<DATA, Txt("{\"type\": \"content_blo")>>
SplitFrameTail ==
  <<Txt("ck_delta\", \"delta\": {\"text\": \"q\"}}"), NL,
    DATA, Json(NatDelta("z")), NL, DATA, Json(OaiDelta("z")), NL,
    DATA, Txt("[DO")>>
SplitDoneTail ==
  <<Txt("NE]"), NL, DATA, Json(NatDelta("w")), NL, DATA, Json(OaiDelta("w")), NL>>

\* The chunks the transport can deliver.
Chunks ==
  { <<DATA, Json(NatDelta("Hel")), NL>>,
    <<DATA, Json(NatDelta("lo")), NL, NL, DATA, DONE, NL>>,
    <<DATA, Json(NatDelta("a")), NL, DATA, Txt("{oops"), NL,
      DATA, Json(NatDelta("b")), NL>>,
    <<DATA, Json(OaiDelta("a")), NL, DATA, Json(OaiDeltaNull), NL,
      DATA, Json(OaiDelta("b"))>>,
    <<DATA, Json(NatDelta("x")), NL, DATA, Json(OaiDelta("x")), NL,
      DATA, SP, DONE, SP, NL,
      DATA, Json(NatDelta("y")), NL, DATA, Json(OaiDelta("y"))>>,
    <<DATA, Json(MetaFrame), NL, DATA, Json(NotObject), NL,
      DATA, Json(NatDeltaNull), NL, DATA, Json(ChoiceNotObject), NL,
      DATA, Json(NoChoices)>>,
    <<SP, NL>>,
    <<DATA, BAD>>,
    <<Json(OaiBody("a"))>>,
    <<Json(NatBody("b")), NL>>,
    <<Txt("{oops")>>,
    <<Json(NoChoices)>>,
    <<Json(NoContent)>>,
    <<Json(NotObject)>>,
    EmptyFrames,
    <<Json(OaiBody(""))>>,
    <<Json(NatBody(""))>>,
    SplitFrameHead, SplitFrameTail, SplitDoneTail }

Providers == {"anthropic", "openrouter", "oneapi", "custom"}
Messages == "hi"
Models == {"claude-3-5-sonnet-20241022", "anthropic/claude-3.5-sonnet", "gpt-4o"}
Temperatures == {<<-1, 2>>, <<0, 1>>, <<1, 2>>, <<1, 1>>, <<3, 2>>, <<-2, 1>>}
ModelArgs ==
  {<<t, p, pp, <<7, 2>>>> : t \in Temperatures, p \in {<<1, 2>>, <<2, 1>>},
                             pp \in {<<-3, 1>>, <<5, 2>>}}

\* The longest chunk sequence the transport delivers.
MaxChunks == 2

(* ------------------------------ state ---------------------------------- *)

VARIABLES
  provider,              \* self.provider
  is_openai_compatible,  \* self.is_openai_compatible
  stream, model, model_arg,  \* arguments of stream_chat
  pc,        \* "start", "read", "line", "yield", "done", "raised", "cancelled"
  requests,  \* the (headers, data) pairs passed to _make_request
  received,  \* the chunks the transport has delivered, in order
  lines,     \* chunk_str.split('\n') of the chunk being processed
  lineNo,    \* how many of those lines the for loop has taken
  taken,     \* history: every line the for loop has taken, in order
  events,    \* the events yielded to the caller, in order
  response,  \* the local `response` of the non-streaming loop
  log,       \* the warning and error records written, in order
  err,       \* the exception that left stream_chat, "" if none
  transport, \* the iteration _make_request returned: "none" before the call,
             \* "open" while it is suspended holding its connection, "ended"
             \* once it ran to its end, "failed" once it raised, "closed" once
             \* it was closed from outside; all but "none" and "open" have
             \* released the connection
  asked      \* history: how many times the caller has asked for an event

vars == <<provider, is_openai_compatible, stream, model, model_arg, pc,
          requests, received, lines, lineNo, taken, events, response, log, err,
          transport, asked>>

client == <<provider, is_openai_compatible, stream, model, model_arg>>

InitWith(models, margs) ==
  /\ provider \in Providers
  /\ \E flag \in BOOLEAN : is_openai_compatible = InitCompatible(provider, flag)
  /\ stream \in BOOLEAN
  /\ model \in models
  /\ model_arg \in margs
  /\ pc = "start"
  /\ requests = <<>>
  /\ received = <<>>
  /\ lines = <<>>
  /\ lineNo = 0
  /\ taken = <<>>
  /\ events = <<>>
  /\ response = <<>>
  /\ log = <<>>
  /\ err = ""
  /\ transport = "none"
  /\ asked = 0

Init == InitWith({"claude-3-5-sonnet-20241022"}, {<<<<1, 2>>, <<1, 1>>, <<0, 1>>, <<0, 1>>>>})

EncInit == InitWith(Models, ModelArgs)

(* ------------------------------ actions -------------------------------- *)

\* The log record, if any, of an outcome.
Logged(o) == IF o.act \in {"warning", "error_json", "error_exc"} THEN <<o.act>> ELSE <<>>

\* yield "answer", content
Emit(evs, content) == Append(evs, <<"answer", content>>)

\* Variant: the last line of the chunk before is carried into the first
\* line of this one.
ChunkLines_Carry(prev, chunk) ==
  IF prev = <<>> THEN Split(chunk)
  ELSE <<prev[Len(prev)] \o Head(Split(chunk))>> \o Tail(Split(chunk))

\* The lines the for loop runs over for a chunk; `prev` are the lines of the
\* chunk before, which the code does not keep.
ChunkLines(prev, chunk) == Split(chunk)

\* Variant: the event is put aside and the loop goes on without suspending.
YieldPoint_Collect(k) == IF k < Len(lines) THEN "line" ELSE "read"

\* The generator is suspended at its yield until the caller asks again.
YieldPoint(k) == "yield"

\* Variant: the for loop left after the first line of a chunk.
AfterLine_FirstLineOnly(k) == "read"

\* Where the streaming loop goes on after k lines of the chunk are taken.
AfterLine(k) == IF k < Len(lines) THEN "line" ELSE "read"

\* The first resumption: the encoder, then _make_request(headers, data).
Call ==
  /\ pc = "start"
  /\ IF Supported(provider, is_openai_compatible)
     THEN /\ requests' = <<Encode(provider, is_openai_compatible, Messages,
                                  model_arg, model, stream)>>
          /\ pc' = "read"
          /\ err' = err
          /\ transport' = "open"
     ELSE /\ pc' = "raised"
          /\ err' = "ValueError"
          /\ requests' = requests
          /\ transport' = transport
  /\ asked' = asked + 1
  /\ UNCHANGED <<client, received, lines, lineNo, taken, events, response, log>>

\* The transport has no more chunks: the async for ends, the generator returns.
Exhausted ==
  /\ pc = "read"
  /\ pc' = "done"
  /\ transport' = "ended"
  /\ UNCHANGED <<client, requests, received, lines, lineNo, taken, events,
                 response, log, err, asked>>

\* Variant: the async for wrapped in a handler that logs the failure and ends
\* the sequence.
TransportFails_Logged ==
  /\ pc = "read"
  /\ pc' = "done"
  /\ transport' = "failed"
  /\ log' = Append(log, "error_exc")
  /\ UNCHANGED <<client, requests, received, lines, lineNo, taken, events,
                 response, err, asked>>

\* The transport raises while the next chunk is awaited.
TransportFails ==
  /\ pc = "read"
  /\ pc' = "raised"
  /\ err' = "TransportFailure"
  /\ transport' = "failed"
  /\ UNCHANGED <<client, requests, received, lines, lineNo, taken, events,
                 response, log, asked>>

\* Streaming: a chunk arrives; decode, skip if blank, else split into lines.
RecvStream ==
  /\ pc = "read"
  /\ stream
  /\ Len(received) < MaxChunks
  /\ \E chunk \in Chunks :
       /\ received' = Append(received, chunk)
       /\ IF ~Decodable(chunk)
          THEN pc' = "raised" /\ err' = "UnicodeDecodeError"
               /\ UNCHANGED <<lines, lineNo>>
          ELSE IF Strip(chunk) = <<>>
          THEN UNCHANGED <<pc, err, lines, lineNo>>
          ELSE pc' = "line" /\ lines' = ChunkLines(lines, chunk) /\ lineNo' = 0
               /\ err' = err
  /\ UNCHANGED <<client, requests, taken, events, response, log, transport, asked>>

\* Streaming: one iteration of the for loop over the lines of the chunk.
ProcessLine ==
  /\ pc = "line"
  /\ LET line == lines[lineNo + 1]
         json_str == Tail(line)
         o == StreamFrame(provider, is_openai_compatible, json_str)
     IN /\ lineNo' = lineNo + 1
        /\ taken' = Append(taken, line)
        /\ IF ~StartsWithData(line)
           THEN pc' = AfterLine(lineNo + 1) /\ UNCHANGED <<events, log, err>>
           ELSE IF IsDoneToken(json_str)
           THEN pc' = "done" /\ UNCHANGED <<events, log, err>>
           ELSE /\ log' = log \o Logged(o)
                /\ events' = IF o.act = "yield" THEN Emit(events, o.content)
                              ELSE events
                /\ pc' = CASE o.act = "yield" -> YieldPoint(lineNo + 1)
                           [] o.act = "raise" -> "raised"
                           [] OTHER -> AfterLine(lineNo + 1)
                /\ err' = IF o.act = "raise" THEN o.content[2] ELSE err
  /\ UNCHANGED <<client, requests, received, lines, response, transport, asked>>

\* Non-streaming: a chunk arrives and is handled as one response body.
RecvBody ==
  /\ pc = "read"
  /\ ~stream
  /\ Len(received) < MaxChunks
  /\ \E chunk \in Chunks :
       LET o == BodyChunk(provider, is_openai_compatible, chunk, response)
       IN /\ received' = Append(received, chunk)
          /\ response' = BodyResponse(chunk, response)
          /\ log' = log \o Logged(o)
          /\ events' = IF o.act = "yield" THEN Emit(events, o.content) ELSE events
          /\ pc' = CASE o.act = "yield" -> YieldPoint(0)
                     [] o.act = "raise" -> "raised"
                     [] OTHER -> "read"
          /\ err' = IF o.act = "raise" THEN o.content[2] ELSE err
  /\ UNCHANGED <<client, requests, lines, lineNo, taken, transport, asked>>

\* The caller asks for the next event: the generator resumes after its yield.
Resume ==
  /\ pc = "yield"
  /\ pc' = IF stream THEN AfterLine(lineNo) ELSE "read"
  /\ asked' = asked + 1
  /\ UNCHANGED <<client, requests, received, lines, lineNo, taken, events,
                 response, log, err, transport>>

\* The caller's task is cancelled while the next chunk is awaited: the
\* CancelledError is raised at the await inside the transport, whose scoped
\* connection is released as it unwinds, and passes through stream_chat.
CancelRead ==
  /\ pc = "read"
  /\ pc' = "cancelled"
  /\ transport' = "closed"
  /\ UNCHANGED <<client, requests, received, lines, lineNo, taken, events,
                 response, log, err, asked>>

\* The caller stops iterating and closes the generator at its yield:
\* GeneratorExit unwinds stream_chat, which has no finally and does not
\* close the transport iteration.
CancelYield ==
  /\ pc = "yield"
  /\ pc' = "cancelled"
  /\ UNCHANGED <<client, requests, received, lines, lineNo, taken, events,
                 response, log, err, transport, asked>>

\* The runtime finalises the abandoned transport iteration (garbage
\* collection, then aclose() on the event loop), if and when it does.
Collect ==
  /\ pc \in {"done", "raised", "cancelled"}
  /\ transport = "open"
  /\ transport' = "closed"
  /\ UNCHANGED <<client, requests, received, lines, lineNo, taken, events,
                 response, log, err, pc, asked>>

Next ==
  \/ Call
  \/ Exhausted
  \/ TransportFails
  \/ RecvStream
  \/ ProcessLine
  \/ RecvBody
  \/ Resume
  \/ CancelRead
  \/ CancelYield
  \/ Collect

Spec == Init /\ [][Next]_vars

\* The encoder alone, over all sampling parameters and model names.
EncSpec == EncInit /\ [][Call]_vars

(* ------------------------------ properties ----------------------------- *)

\* The branch the streaming normaliser runs for this client.
StreamBranch == IF is_openai_compatible THEN "OpenAICompatible" ELSE "NativeAnthropic"

Last(s) == s[Len(s)]

IsPrefix(s, t) == Len(s) <= Len(t) /\ SubSeq(t, 1, Len(s)) = s

HasKey(v, k) == IsObj(v) /\ k \in DOMAIN v[2]

IsText(v) == v[1] = "str" /\ v[2] # ""

\* The content-carrying frame of each dialect, as the wire format gives it:
\* {"type": "content_block_delta", "delta": {"text": t}} and
\* {"choices": [{"delta": {"content": t}}]}, t a non-empty string.
IsContentFrame(d, v) ==
  IF d = "NativeAnthropic"
  THEN /\ HasKey(v, "type") /\ IsStr(v[2].type, "content_block_delta")
       /\ HasKey(v, "delta") /\ HasKey(v[2].delta, "text")
       /\ IsText(v[2].delta[2].text)
  ELSE /\ HasKey(v, "choices") /\ v[2].choices[1] = "arr"
       /\ Len(v[2].choices[2]) > 0
       /\ HasKey(v[2].choices[2][1], "delta")
       /\ HasKey(v[2].choices[2][1][2].delta, "content")
       /\ IsText(v[2].choices[2][1][2].delta[2].content)

FrameText(d, v) ==
  IF d = "NativeAnthropic" THEN v[2].delta[2].text
  ELSE v[2].choices[2][1][2].delta[2].content

\* A line 'data: [DONE]' (blanks around the token do not count).
TerminationLine(line) == StartsWithData(line) /\ Strip(Tail(line)) = <<DONE>>

\* A 'data: ' line that carries one JSON document.
IsJsonLine(line) ==
  /\ StartsWithData(line)
  /\ Len(Strip(Tail(line))) = 1
  /\ Strip(Tail(line))[1][1] = "json"

LineJson(line) == Strip(Tail(line))[1][2]

\* A 'data: ' line that carries a content frame of dialect d.
IsContentLine(d, line) == IsJsonLine(line) /\ IsContentFrame(d, LineJson(line))

\* The events a sequence of lines stands for: the content frames of dialect
\* d, in order, up to the first termination line.
RECURSIVE ExpectedStream(_, _)
ExpectedStream(d, ls) ==
  IF ls = <<>> \/ TerminationLine(Head(ls)) THEN <<>>
  ELSE (IF IsContentLine(d, Head(ls))
        THEN <<<<"answer", FrameText(d, LineJson(Head(ls)))>>>> ELSE <<>>)
       \o ExpectedStream(d, Tail(ls))

\* The lines of a chunk sequence: every chunk that decodes and is not blank,
\* cut at its newlines, in transport order.
RECURSIVE AllLines(_)
AllLines(chs) ==
  IF chs = <<>> THEN <<>>
  ELSE (IF Decodable(Head(chs)) /\ Strip(Head(chs)) # <<>>
        THEN Split(Head(chs)) ELSE <<>>) \o AllLines(Tail(chs))

\* A parsed payload of unexpected shape: not an object, choices[0] not an
\* object, or a delta that is not an object.
UnexpectedShape(v) ==
  \/ ~IsObj(v)
  \/ /\ HasKey(v, "delta") /\ ~IsObj(v[2].delta)
  \/ /\ HasKey(v, "choices") /\ v[2].choices[1] = "arr" /\ Len(v[2].choices[2]) > 0
     /\ \/ ~IsObj(v[2].choices[2][1])
        \/ /\ HasKey(v[2].choices[2][1], "delta")
           /\ ~IsObj(v[2].choices[2][1][2].delta)

\* A 'data: ' line, not the termination line, whose payload is not valid JSON
\* or parses to a value of unexpected shape.
MalformedLine(line) ==
  /\ StartsWithData(line)
  /\ ~TerminationLine(line)
  /\ (~IsJsonLine(line) \/ UnexpectedShape(LineJson(line)))

ExampleMalformed ==
  <<DATA, Json(NatDelta("a")), NL, DATA, Txt("{oops"), NL,
    DATA, Json(NatDelta("b")), NL>>

\* The indices of the content lines of dialect d among the first j lines.
ContentUpTo(d, ls, j) == {i \in 1..j : IsContentLine(d, ls[i])}

\* C1, step part: the for loop taking a malformed line emits nothing, raises
\* nothing and goes on with the next line or the next chunk.
C1_MalformedSkipped ==
  (taken' # taken /\ MalformedLine(Last(taken')))
    => (events' = events /\ pc' \in {"line", "read"} /\ err' = "")

\* C1, state part: a content frame taken after a malformed line, with no
\* termination line before it, has its event at its place in the output; and
\* the chunk with one invalid-JSON line between two content_block_delta
\* frames gives exactly the two events, in order, without an error.
C1_LaterFramesYield ==
  /\ \A j \in 1..Len(taken) :
       ( /\ IsContentLine(StreamBranch, taken[j])
         /\ \A i \in 1..j : ~TerminationLine(taken[i])
         /\ \E i \in 1..(j - 1) : MalformedLine(taken[i]) )
       => LET n == Cardinality(ContentUpTo(StreamBranch, taken, j))
          IN /\ Len(events) >= n
             /\ events[n] = <<"answer", FrameText(StreamBranch, LineJson(taken[j]))>>
  /\ ( /\ stream /\ StreamBranch = "NativeAnthropic"
       /\ received = <<ExampleMalformed>> /\ pc \in {"read", "done"} )
     => events = <<<<"answer", Str("a")>>, <<"answer", Str("b")>>>> /\ err = ""

\* C1: in streaming mode a 'data: ' line that is not valid JSON or has an
\* unexpected shape emits no event, raises no error and does not end the
\* sequence; the content frames after it still yield their events.
C1_MalformedLineAbsorbed == [][C1_MalformedSkipped]_vars /\ []C1_LaterFramesYield

C1_Witness ==
  /\ stream /\ provider = "anthropic" /\ ~is_openai_compatible
  /\ received = <<ExampleMalformed>> /\ pc = "read"
  /\ events = <<<<"answer", Str("a")>>, <<"answer", Str("b")>>>>
  /\ log = <<"error_json">>

\* C2: no in-stream anomaly raises to the caller: the only exceptions that
\* leave stream_chat are the unsupported-provider error, raised before any
\* request, and a transport failure.
C2_OnlyProviderAndTransportErrors ==
  /\ err \in {"", "ValueError", "TransportFailure"}
  /\ err = "ValueError" => requests = <<>>

\* C3: once a termination line is taken, the sequence has ended at that
\* line: it is the last line taken, the chunk it came in is the last chunk
\* requested, and the events are those of the content frames before it.
C3_DoneEndsSequence ==
  LET D == {i \in 1..Len(taken) : TerminationLine(taken[i])}
  IN D # {} =>
       /\ pc = "done"
       /\ D = {Len(taken)}
       /\ lines = Split(Last(received))
       /\ lines[lineNo] = Last(taken)
       /\ events = ExpectedStream(StreamBranch, SubSeq(taken, 1, Len(taken) - 1))

C3_Witness ==
  /\ pc = "done"
  /\ Len(received) < MaxChunks
  /\ lineNo < Len(lines)
  /\ TerminationLine(Last(taken))
  /\ \E i \in (lineNo + 1)..Len(lines) : IsContentLine(StreamBranch, lines[i])
  /\ events # <<>>

ExampleHel == <<DATA, Json(NatDelta("Hel")), NL>>
ExampleLoDone == <<DATA, Json(NatDelta("lo")), NL, NL, DATA, DONE, NL>>

\* C4: the events are the content frames of the running dialect, line by
\* line within a chunk and chunk by chunk in transport order, cut at the
\* first termination line; none dropped, duplicated or reordered.
C4_EventsInFrameOrder ==
  (stream /\ pc # "start" /\ Supported(provider, is_openai_compatible)) =>
    /\ events = ExpectedStream(StreamBranch, taken)
    /\ IsPrefix(taken, AllLines(received))
    /\ pc = "read" => taken = AllLines(received)
    /\ (pc = "done" /\ \A i \in 1..Len(taken) : ~TerminationLine(taken[i]))
         => taken = AllLines(received)
    /\ ( /\ StreamBranch = "NativeAnthropic" /\ pc = "done"
         /\ received = <<ExampleHel, ExampleLoDone>> )
       => events = <<<<"answer", Str("Hel")>>, <<"answer", Str("lo")>>>>

C4_Witness ==
  /\ stream /\ provider = "anthropic" /\ ~is_openai_compatible /\ pc = "done"
  /\ received = <<ExampleHel, ExampleLoDone>>
  /\ events = <<<<"answer", Str("Hel")>>, <<"answer", Str("lo")>>>>

\* The client is resolved to the OpenAICompatible dialect: 'openrouter',
\* 'oneapi', or another identifier (not 'anthropic') with the flag set.
ResolvedOpenAI ==
  \/ provider \in {"openrouter", "oneapi"}
  \/ provider # "anthropic" /\ is_openai_compatible

\* A chunk that is one JSON document (blanks around it do not count).
IsJsonChunk(chunk) ==
  /\ Decodable(chunk) /\ Len(Strip(chunk)) = 1 /\ Strip(chunk)[1][1] = "json"

ChunkJson(chunk) == Strip(chunk)[1][2]

\* The bodies of interest of the wire format, with non-empty c:
\* {"choices": [{"message": {"content": c}}]} and {"content": [{"text": c}]}.
IsContentBody(d, v) ==
  IF d = "NativeAnthropic"
  THEN /\ HasKey(v, "content") /\ v[2].content[1] = "arr"
       /\ Len(v[2].content[2]) > 0
       /\ HasKey(v[2].content[2][1], "text")
       /\ IsText(v[2].content[2][1][2].text)
  ELSE /\ HasKey(v, "choices") /\ v[2].choices[1] = "arr"
       /\ Len(v[2].choices[2]) > 0
       /\ HasKey(v[2].choices[2][1], "message")
       /\ HasKey(v[2].choices[2][1][2].message, "content")
       /\ IsText(v[2].choices[2][1][2].message[2].content)

BodyText(d, v) ==
  IF d = "NativeAnthropic" THEN v[2].content[2][1][2].text
  ELSE v[2].choices[2][1][2].message[2].content

\* The events a sequence of response bodies stands for under dialect d.
RECURSIVE ExpectedBodies(_, _)
ExpectedBodies(d, chs) ==
  IF chs = <<>> THEN <<>>
  ELSE (IF IsJsonChunk(Head(chs)) /\ IsContentBody(d, ChunkJson(Head(chs)))
        THEN <<<<"answer", BodyText(d, ChunkJson(Head(chs)))>>>> ELSE <<>>)
       \o ExpectedBodies(d, Tail(chs))

\* C5: non-streaming, client resolved to the OpenAICompatible dialect: a
\* chunk holding {"choices": [{"message": {"content": c}}]}, c non-empty,
\* yields exactly one event ("answer", c).
C5_OpenAIBodyYieldsEvent ==
  (~stream /\ ResolvedOpenAI /\ received # <<>>
     /\ IsJsonChunk(Last(received))
     /\ IsContentBody("OpenAICompatible", ChunkJson(Last(received))))
  => /\ events # <<>>
     /\ Last(events) =
          <<"answer", BodyText("OpenAICompatible", ChunkJson(Last(received)))>>
     /\ Len(events) =
          Len(ExpectedBodies("OpenAICompatible", received))

\* The branch the non-streaming normaliser runs for this client.
BodyBranch ==
  IF provider \in {"openrouter", "oneapi"} THEN "OpenAICompatible"
  ELSE "NativeAnthropic"

\* A chunk that decodes but is not a JSON document.
FailsJsonParsing(chunk) == Decodable(chunk) /\ ~IsJsonChunk(chunk)

\* C6, step part: a chunk that fails JSON parsing emits nothing, raises
\* nothing, and leaves the loop waiting for the next chunk as it was.
C6_FailedChunkSkipped ==
  (~stream /\ received' # received /\ FailsJsonParsing(Last(received')))
    => /\ pc = "read" /\ pc' = "read"
       /\ UNCHANGED <<events, response, err, client, requests>>
       /\ log' = Append(log, "error_json")

\* C6, state part: whatever the position of the failed chunks, the bodies
\* around them have yielded their events, in order.
C6_LaterBodiesYield ==
  ( /\ ~stream /\ provider \in {"anthropic", "openrouter", "oneapi"}
    /\ \E i \in 1..Len(received) : FailsJsonParsing(received[i]) )
  => events = ExpectedBodies(BodyBranch, received)

\* C6: in non-streaming mode a chunk that fails JSON parsing emits no event
\* and does not end the sequence: the next chunk is read, and a later
\* well-formed body yields its event, wherever the failed chunk stands.
C6_JsonFailureAbsorbed == [][C6_FailedChunkSkipped]_vars /\ []C6_LaterBodiesYield

C6_Witness ==
  /\ ~stream /\ provider = "oneapi"
  /\ received = <<<<Txt("{oops")>>, <<Json(OaiBody("a"))>>>>
  /\ events = <<<<"answer", Str("a")>>>>
  /\ log = <<"error_json">>

\* C7: a provider other than 'anthropic', 'openrouter', 'oneapi' with the
\* flag unset: stream_chat raises the unsupported-provider error, no request
\* reaches the transport, no chunk is read and no event is emitted.
C7_UnsupportedProviderRaisesFirst ==
  (provider \notin {"anthropic", "openrouter", "oneapi"} /\ ~is_openai_compatible)
  => /\ requests = <<>> /\ received = <<>> /\ events = <<>>
     /\ pc \in {"start", "raised"}
     /\ pc = "raised" => err = "ValueError"

C7_Witness ==
  /\ provider = "custom" /\ ~is_openai_compatible
  /\ pc = "raised" /\ err = "ValueError" /\ requests = <<>>

\* C8: the temperature sent is 1 if t < 0 or t > 1 and t otherwise (0 and 1
\* unchanged); top_p, presence_penalty and frequency_penalty are sent as
\* given.
C8_TemperatureClamped ==
  requests # <<>> =>
    LET t == model_arg[1]
        d == requests[1].data
    IN /\ (t[1] < 0 \/ t[1] > t[2]) => d.temperature = <<1, 1>>
       /\ (t[1] >= 0 /\ t[1] <= t[2]) => d.temperature = t
       /\ d.top_p = model_arg[2]
       /\ "presence_penalty" \in DOMAIN d => d.presence_penalty = model_arg[3]
       /\ "frequency_penalty" \in DOMAIN d => d.frequency_penalty = model_arg[4]

C8_Witness ==
  /\ requests # <<>> /\ model_arg[1] = <<0, 1>>
  /\ requests[1].data.temperature = <<0, 1>>
  /\ requests[1].data.top_p = <<2, 1>>
  /\ provider = "oneapi" /\ requests[1].data.presence_penalty = <<-3, 1>>

\* C9: for 'openrouter' the model sent is 'anthropic/claude-3.5-sonnet'
\* whatever the caller gave; for every other supported provider it is the
\* caller's model.
C9_ModelOverride ==
  requests # <<>> =>
    requests[1].data.model =
      IF provider = "openrouter" THEN "anthropic/claude-3.5-sonnet" ELSE model

C9_Witness ==
  /\ requests # <<>> /\ provider = "openrouter" /\ model = "gpt-4o"
  /\ requests[1].data.model = "anthropic/claude-3.5-sonnet"

\* A frame of the other dialect's kind: without a 'choices' key under the
\* OpenAI-compatible branch, with a 'type' other than 'content_block_delta'
\* under the native branch.
ForeignFrame(d, v) ==
  IF d = "OpenAICompatible" THEN IsObj(v) /\ ~HasKey(v, "choices")
  ELSE IsObj(v) /\ ~(HasKey(v, "type") /\ IsStr(v[2].type, "content_block_delta"))

\* The for loop taking a line that carries a frame foreign to the running
\* branch: no event, no error, on to the next line or chunk.
C10_Step ==
  ( /\ taken' # taken /\ IsJsonLine(Last(taken'))
    /\ ForeignFrame(StreamBranch, LineJson(Last(taken'))) )
  => (events' = events /\ pc' \in {"line", "read"} /\ err' = "")

\* C10: the streaming branches do not cross-interpret: under the
\* OpenAI-compatible branch a frame without 'choices', under the native
\* branch a frame whose type is not 'content_block_delta', yields no event,
\* and the sequence continues.
C10_NoCrossInterpretation == [][C10_Step]_vars

C10_Witness ==
  /\ taken # <<>> /\ IsJsonLine(Last(taken)) /\ pc \in {"line", "read"}
  /\ \/ /\ StreamBranch = "OpenAICompatible"
        /\ LineJson(Last(taken)) = NatDelta("a")
     \/ /\ StreamBranch = "NativeAnthropic"
        /\ LineJson(Last(taken)) = OaiDelta("a")

\* A body whose array of the dialect is empty: {"choices": []} for the
\* OpenAI-compatible dialect, {"content": []} for the native one.
IsEmptyBody(d, v) ==
  IF d = "NativeAnthropic"
  THEN HasKey(v, "content") /\ v[2].content[1] = "arr" /\ Len(v[2].content[2]) = 0
  ELSE HasKey(v, "choices") /\ v[2].choices[1] = "arr" /\ Len(v[2].choices[2]) = 0

\* The dialect the client is resolved to.
ResolvedDialect == IF provider = "anthropic" THEN "NativeAnthropic" ELSE "OpenAICompatible"

\* C11: non-streaming, every supported client: bodies with an empty
\* 'choices' array (OpenAI-compatible) or an empty 'content' array (native)
\* yield no event, are each logged as a warning and not as an error, and the
\* loop goes on to the next chunk.
C11_EmptyBodyWarned ==
  ( /\ ~stream /\ Supported(provider, is_openai_compatible) /\ received # <<>>
    /\ \A i \in 1..Len(received) :
         /\ IsJsonChunk(received[i])
         /\ IsEmptyBody(ResolvedDialect, ChunkJson(received[i])) )
  => /\ events = <<>>
     /\ log = [i \in 1..Len(received) |-> "warning"]
     /\ pc \in {"read", "done", "raised", "cancelled"}
     /\ err \in {"", "TransportFailure"}

\* C12, state part: once the transport has raised, stream_chat has raised
\* that failure to the caller.
C12_Raised == transport = "failed" => (pc = "raised" /\ err = "TransportFailure")

\* C12, step part: the failing read emits and logs nothing, and after it
\* nothing is emitted.
C12_Step ==
  /\ (transport' = "failed" /\ transport # "failed")
       => (pc = "read" /\ events' = events /\ log' = log)
  /\ transport = "failed" => (events' = events /\ log' = log /\ err' = err)

\* C12: a transport failure while the next chunk is read, in either mode and
\* at any position, reaches the caller unchanged: no handler of stream_chat
\* catches it, no event follows it, the events before it stand.
C12_TransportFailurePropagates == []C12_Raised /\ [][C12_Step]_vars

C12_Witness ==
  /\ transport = "failed" /\ pc = "raised" /\ err = "TransportFailure"
  /\ Len(received) = 1 /\ events # <<>>

\* The scheduling the claim of finiteness assumes: the event loop runs the
\* generator, the consumer keeps pulling, and the transport answers every
\* read with a chunk, its end or a failure.
LiveSpec ==
  /\ Spec
  /\ WF_vars(Call) /\ WF_vars(ProcessLine) /\ WF_vars(Resume)
  /\ WF_vars(Exhausted \/ TransportFails \/ RecvStream \/ RecvBody)

\* stream_chat is over: returned, raised or closed by its caller.
Finished == pc \in {"done", "raised", "cancelled"}

\* Finiteness alone: under LiveSpec stream_chat eventually finishes.
EventuallyFinished == <>Finished

\* The step reads the end of the transport sequence.
ExhaustionStep == pc = "read" /\ transport' = "ended"

\* The step processes a [DONE] line in streaming mode.
DoneStep == stream /\ pc = "line" /\ TerminationLine(lines[lineNo + 1])

\* The step raises one of the two errors that may cross to the caller.
PropagatedErrorStep ==
  \/ pc = "start" /\ err' = "ValueError"
  \/ pc = "read" /\ transport' = "failed"

C13_Step ==
  (~Finished /\ pc' \in {"done", "raised"})
    => (ExhaustionStep \/ DoneStep \/ PropagatedErrorStep)

\* C13: with a consumer that keeps pulling, the sequence of stream_chat ends
\* only when the transport is exhausted (both modes) or when the [DONE]
\* token is processed (streaming only), the unsupported-provider error and
\* a transport failure apart; no chunk content ends a non-streaming one.
C13_EndsOnlyOnExhaustionOrDone == [][C13_Step]_vars

(* -------------------- two invocations on one client -------------------- *)

\* In PairSpec the variables of the client keep their meaning and every
\* argument and local of stream_chat holds one value per invocation.
Invocations == {1, 2}

\* The longest chunk sequence the transport delivers to one invocation.
PairMaxChunks == 2

PairChunks ==
  { <<DATA, BAD>>,
    <<Json(OaiBody("a"))>>,
    <<Json(NatBody("b")), NL>>,
    <<DATA, Json(NatDelta("x")), NL, DATA, Json(OaiDelta("x"))>> }

\* The arguments of the two calls differ.
PairMessages(i) == IF i = 1 THEN "hi" ELSE "bye"
PairModel(i) == IF i = 1 THEN "claude-3-5-sonnet-20241022" ELSE "gpt-4o"
PairModelArg(i) ==
  IF i = 1 THEN <<<<1, 2>>, <<1, 1>>, <<0, 1>>, <<0, 1>>>>
  ELSE <<<<3, 2>>, <<1, 2>>, <<5, 2>>, <<7, 2>>>>

\* Variant: the parsed body kept in one place for all invocations, as a
\* field of the client would be.
ResponseCell_Shared(i) == 1

\* Where the local `response` of invocation i lives: in the frame of i.
ResponseCell(i) == i

PairInit ==
  /\ provider \in Providers
  /\ \E flag \in BOOLEAN : is_openai_compatible = InitCompatible(provider, flag)
  /\ stream \in [Invocations -> BOOLEAN]
  /\ model = [i \in Invocations |-> PairModel(i)]
  /\ model_arg = [i \in Invocations |-> PairModelArg(i)]
  /\ pc = [i \in Invocations |-> "start"]
  /\ requests = [i \in Invocations |-> <<>>]
  /\ received = [i \in Invocations |-> <<>>]
  /\ lines = [i \in Invocations |-> <<>>]
  /\ lineNo = [i \in Invocations |-> 0]
  /\ taken = [i \in Invocations |-> <<>>]
  /\ events = [i \in Invocations |-> <<>>]
  /\ response = [i \in Invocations |-> <<>>]
  /\ log = [i \in Invocations |-> <<>>]
  /\ err = [i \in Invocations |-> ""]
  /\ transport = [i \in Invocations |-> "none"]
  /\ asked = [i \in Invocations |-> 0]

PairAfterLine(i, k) == IF k < Len(lines[i]) THEN "line" ELSE "read"

PairCall(i) ==
  /\ pc[i] = "start"
  /\ IF Supported(provider, is_openai_compatible)
     THEN /\ requests' = [requests EXCEPT ![i] =
                 <<Encode(provider, is_openai_compatible, PairMessages(i),
                          model_arg[i], model[i], stream[i])>>]
          /\ pc' = [pc EXCEPT ![i] = "read"]
          /\ transport' = [transport EXCEPT ![i] = "open"]
          /\ err' = err
     ELSE /\ pc' = [pc EXCEPT ![i] = "raised"]
          /\ err' = [err EXCEPT ![i] = "ValueError"]
          /\ UNCHANGED <<requests, transport>>
  /\ asked' = [asked EXCEPT ![i] = @ + 1]
  /\ UNCHANGED <<client, received, lines, lineNo, taken, events, response, log>>

PairExhausted(i) ==
  /\ pc[i] = "read"
  /\ pc' = [pc EXCEPT ![i] = "done"]
  /\ transport' = [transport EXCEPT ![i] = "ended"]
  /\ UNCHANGED <<client, requests, received, lines, lineNo, taken, events,
                 response, log, err, asked>>

PairTransportFails(i) ==
  /\ pc[i] = "read"
  /\ pc' = [pc EXCEPT ![i] = "raised"]
  /\ err' = [err EXCEPT ![i] = "TransportFailure"]
  /\ transport' = [transport EXCEPT ![i] = "failed"]
  /\ UNCHANGED <<client, requests, received, lines, lineNo, taken, events,
                 response, log, asked>>

PairRecvStream(i) ==
  /\ pc[i] = "read"
  /\ stream[i]
  /\ Len(received[i]) < PairMaxChunks
  /\ \E chunk \in PairChunks :
       /\ received' = [received EXCEPT ![i] = Append(@, chunk)]
       /\ IF ~Decodable(chunk)
          THEN /\ pc' = [pc EXCEPT ![i] = "raised"]
               /\ err' = [err EXCEPT ![i] = "UnicodeDecodeError"]
               /\ UNCHANGED <<lines, lineNo>>
          ELSE IF Strip(chunk) = <<>>
          THEN UNCHANGED <<pc, err, lines, lineNo>>
          ELSE /\ pc' = [pc EXCEPT ![i] = "line"]
               /\ lines' = [lines EXCEPT ![i] = ChunkLines(@, chunk)]
               /\ lineNo' = [lineNo EXCEPT ![i] = 0]
               /\ err' = err
  /\ UNCHANGED <<client, requests, taken, events, response, log, transport, asked>>

PairProcessLine(i) ==
  /\ pc[i] = "line"
  /\ LET line == lines[i][lineNo[i] + 1]
         json_str == Tail(line)
         o == StreamFrame(provider, is_openai_compatible, json_str)
     IN /\ lineNo' = [lineNo EXCEPT ![i] = @ + 1]
        /\ taken' = [taken EXCEPT ![i] = Append(@, line)]
        /\ IF ~StartsWithData(line)
           THEN /\ pc' = [pc EXCEPT ![i] = PairAfterLine(i, lineNo[i] + 1)]
                /\ UNCHANGED <<events, log, err>>
           ELSE IF IsDoneToken(json_str)
           THEN pc' = [pc EXCEPT ![i] = "done"] /\ UNCHANGED <<events, log, err>>
           ELSE /\ log' = [log EXCEPT ![i] = @ \o Logged(o)]
                /\ events' = [events EXCEPT ![i] =
                     IF o.act = "yield" THEN Emit(@, o.content) ELSE @]
                /\ pc' = [pc EXCEPT ![i] =
                     CASE o.act = "yield" -> YieldPoint(lineNo[i] + 1)
                       [] o.act = "raise" -> "raised"
                       [] OTHER -> PairAfterLine(i, lineNo[i] + 1)]
                /\ err' = [err EXCEPT ![i] =
                     IF o.act = "raise" THEN o.content[2] ELSE @]
  /\ UNCHANGED <<client, requests, received, lines, response, transport, asked>>

PairRecvBody(i) ==
  /\ pc[i] = "read"
  /\ ~stream[i]
  /\ Len(received[i]) < PairMaxChunks
  /\ \E chunk \in PairChunks :
       LET cell == ResponseCell(i)
           o == BodyChunk(provider, is_openai_compatible, chunk, response[cell])
       IN /\ received' = [received EXCEPT ![i] = Append(@, chunk)]
          /\ response' = [response EXCEPT ![cell] = BodyResponse(chunk, @)]
          /\ log' = [log EXCEPT ![i] = @ \o Logged(o)]
          /\ events' = [events EXCEPT ![i] =
               IF o.act = "yield" THEN Emit(@, o.content) ELSE @]
          /\ pc' = [pc EXCEPT ![i] = CASE o.act = "yield" -> YieldPoint(0)
                                       [] o.act = "raise" -> "raised"
                                       [] OTHER -> "read"]
          /\ err' = [err EXCEPT ![i] = IF o.act = "raise" THEN o.content[2] ELSE @]
  /\ UNCHANGED <<client, requests, lines, lineNo, taken, transport, asked>>

PairResume(i) ==
  /\ pc[i] = "yield"
  /\ pc' = [pc EXCEPT ![i] = IF stream[i] THEN PairAfterLine(i, lineNo[i]) ELSE "read"]
  /\ asked' = [asked EXCEPT ![i] = @ + 1]
  /\ UNCHANGED <<client, requests, received, lines, lineNo, taken, events,
                 response, log, err, transport>>

\* Any invocation may take the next step: the event loop switches between
\* them at every suspension.
PairNext ==
  \E i \in Invocations :
    \/ PairCall(i)
    \/ PairExhausted(i)
    \/ PairTransportFails(i)
    \/ PairRecvStream(i)
    \/ PairProcessLine(i)
    \/ PairRecvBody(i)
    \/ PairResume(i)

PairSpec == PairInit /\ [][PairNext]_vars

\* What one invocation run alone emits and raises over the bodies chs,
\* starting with the local `response` at resp.
RECURSIVE SoloBodies(_, _, _, _)
SoloBodies(prov, compat, chs, resp) ==
  IF chs = <<>> THEN [events |-> <<>>, err |-> ""]
  ELSE LET o == BodyChunk(prov, compat, Head(chs), resp)
       IN IF o.act = "raise" THEN [events |-> <<>>, err |-> o.content[2]]
          ELSE LET rest == SoloBodies(prov, compat, Tail(chs),
                                      BodyResponse(Head(chs), resp))
               IN [events |-> (IF o.act = "yield" THEN <<<<"answer", o.content>>>>
                               ELSE <<>>) \o rest.events,
                   err |-> rest.err]

\* What one invocation run alone emits over the lines ls.
RECURSIVE SoloLines(_, _, _)
SoloLines(prov, compat, ls) ==
  IF ls = <<>> THEN <<>>
  ELSE IF ~StartsWithData(Head(ls)) THEN SoloLines(prov, compat, Tail(ls))
  ELSE IF IsDoneToken(Tail(Head(ls))) THEN <<>>
  ELSE LET o == StreamFrame(prov, compat, Tail(Head(ls)))
       IN (IF o.act = "yield" THEN <<<<"answer", o.content>>>> ELSE <<>>)
            \o SoloLines(prov, compat, Tail(ls))

\* The lines a streaming invocation run alone has taken from its chunks:
\* all lines of the chunks before the last, and the first lineNo of the last.
SoloTaken(i) ==
  LET n == Len(received[i])
      body == IF n = 0 THEN <<>> ELSE AllLines(SubSeq(received[i], 1, n - 1))
      last == IF n = 0 \/ ~Decodable(received[i][n]) \/ Strip(received[i][n]) = <<>>
              THEN <<>> ELSE SubSeq(Split(received[i][n]), 1, lineNo[i])
  IN body \o last

C14_Alone(i) ==
  /\ requests[i] =
       IF pc[i] = "start" \/ ~Supported(provider, is_openai_compatible) THEN <<>>
       ELSE <<Encode(provider, is_openai_compatible, PairMessages(i),
                     PairModelArg(i), PairModel(i), stream[i])>>
  /\ IF stream[i]
     THEN /\ taken[i] = SoloTaken(i)
          /\ events[i] = SoloLines(provider, is_openai_compatible, taken[i])
          /\ err[i] \in {"", "ValueError", "TransportFailure", "UnicodeDecodeError"}
     ELSE LET solo == SoloBodies(provider, is_openai_compatible, received[i], <<>>)
          IN /\ events[i] = solo.events
             /\ IF solo.err # "" THEN err[i] = solo.err
                ELSE err[i] \in {"", "ValueError", "TransportFailure"}

\* C14: two invocations interleaved on one client, with different messages,
\* models, sampling parameters and stream flags, each send the request and
\* emit the events (and raise the error) they would if run alone; the fields
\* of the client are never written.
C14_InvocationsIndependent ==
  /\ \A i \in Invocations : C14_Alone(i)
  /\ model = [i \in Invocations |-> PairModel(i)]
  /\ model_arg = [i \in Invocations |-> PairModelArg(i)]

\* Both invocations are suspended at a yield at once, one streaming and one
\* not, the first after a body that its handler had to skip.
C14_Witness ==
  /\ pc[1] = "yield" /\ pc[2] = "yield"
  /\ ~stream[1] /\ stream[2]
  /\ Len(received[1]) = 2 /\ log[1] # <<>>
  /\ requests[1] # requests[2]

(* ------------------------------ backpressure --------------------------- *)

\* Every event was asked for: while the generator runs, the caller has asked
\* once more than it has been given; at a yield it has been given what it
\* asked for.
C15_Demand ==
  /\ Len(events) <= asked
  /\ pc \in {"read", "line"} => asked = Len(events) + 1
  /\ pc = "yield" => asked = Len(events)

C15_Step ==
  \* an event is produced one at a time, by suspending at a yield
  /\ events' # events
       => (pc \in {"read", "line"} /\ pc' = "yield"
           /\ Len(events') = Len(events) + 1 /\ asked = Len(events) + 1)
  \* at a yield nothing moves until the caller asks again or gives up
  /\ pc = "yield"
       => (asked' = asked + 1 \/ pc' = "cancelled" \/ UNCHANGED <<pc, events, received>>)
  \* the next chunk is requested only at the read, with every line of the
  \* chunks before processed and every event of theirs taken
  /\ received' # received
       => (pc = "read" /\ asked = Len(events) + 1
           /\ (stream => taken = AllLines(received)))

\* C15: stream_chat suspends only at the read of the next chunk and at the
\* yield of an event; it requests the next chunk only after the consumer has
\* taken every event of the chunks before, and it never produces an event
\* the consumer has not asked for.
C15_Backpressure == []C15_Demand /\ [][C15_Step]_vars

\* Both events of the first chunk have been taken and the second chunk is
\* about to be requested.
C15_Witness ==
  /\ pc = "read" /\ Len(received) = 1 /\ Len(events) = 2 /\ asked = 3

(* ------------------------------ transport release ---------------------- *)

\* The connection of the transport iteration is no longer held.
Released == transport \in {"ended", "failed", "closed"}

\* C16: on every exit path of stream_chat after the request was sent (the
\* transport exhausted, the [DONE] token seen, the caller cancelling) the
\* transport iteration opened by _make_request is released, not left open
\* and suspended.
C16_ReleasedOnEveryExit == pc \in {"done", "cancelled"} => Released

(* ------------------------------ one dialect ---------------------------- *)

\* The dialect the encoder used, read off the request it sent: only the
\* native payload carries max_tokens.
RequestDialect ==
  IF "max_tokens" \in DOMAIN requests[1].data THEN "NativeAnthropic"
  ELSE "OpenAICompatible"

\* C17: for every client that passes resolution the dialect of the request
\* is the dialect both normalisers read the response in: 'anthropic' is
\* native whatever the flag, and what the encoder treats as OpenAI-compatible
\* is parsed by the OpenAI-compatible branch, streaming or not.
C17_OneDialectEverywhere ==
  requests # <<>> =>
    /\ provider = "anthropic" => RequestDialect = "NativeAnthropic"
    /\ stream => events = ExpectedStream(RequestDialect, taken)
    /\ ~stream => events = ExpectedBodies(RequestDialect, received)

(* ------------------------------ payload keys --------------------------- *)

NativeKeys == {"model", "messages", "max_tokens", "stream", "temperature", "top_p"}

OpenAIKeys ==
  {"model", "messages", "stream", "temperature", "top_p", "presence_penalty",
   "frequency_penalty"}

\* C18: the payload has exactly the keys of its dialect: the native one
\* model, messages, max_tokens = 8192, stream, temperature, top_p and no
\* penalty; the OpenAI-compatible one model, messages, stream, temperature,
\* top_p and both penalties and no max_tokens.  messages and stream are the
\* caller's, and the native accept header is text/event-stream exactly when
\* stream is true.
C18_PayloadKeys ==
  requests # <<>> =>
    LET d == requests[1].data
        h == requests[1].headers
    IN /\ d.messages = Messages
       /\ d.stream = stream
       /\ IF provider = "anthropic"
          THEN /\ DOMAIN d = NativeKeys
               /\ d.max_tokens = 8192
               /\ "accept" \in DOMAIN h
               /\ (h["accept"] = "text/event-stream") <=> stream
               /\ h["accept"] \in {"text/event-stream", "application/json"}
          ELSE /\ DOMAIN d = OpenAIKeys
               /\ "accept" \notin DOMAIN h

\* A native request sent by a client built with the flag set, streaming.
C18_Witness ==
  /\ requests # <<>> /\ provider = "anthropic" /\ is_openai_compatible /\ stream
  /\ DOMAIN requests[1].data = NativeKeys
  /\ requests[1].headers["accept"] = "text/event-stream"
  /\ model_arg[3] = <<5, 2>>

(* ------------------------------ chunk boundaries ----------------------- *)

\* The events the streaming normaliser emits for one chunk processed alone.
ChunkAlone(chunk) ==
  IF Decodable(chunk) /\ Strip(chunk) # <<>>
  THEN SoloLines(provider, is_openai_compatible, Split(chunk)) ELSE <<>>

\* The chunk holds a termination line.
ChunkTerminates(chunk) ==
  /\ Decodable(chunk) /\ Strip(chunk) # <<>>
  /\ \E k \in 1..Len(Split(chunk)) : TerminationLine(Split(chunk)[k])

\* The events of the chunks each processed alone, one after the other, cut
\* after the first chunk that holds a termination line.
RECURSIVE PerChunk(_)
PerChunk(chs) ==
  IF chs = <<>> THEN <<>>
  ELSE ChunkAlone(Head(chs))
         \o (IF ChunkTerminates(Head(chs)) THEN <<>> ELSE PerChunk(Tail(chs)))

\* C19: streaming keeps nothing across a chunk boundary but 'terminated':
\* the events of a chunk sequence are those of its chunks each processed
\* alone, cut at the first chunk holding [DONE].  A frame or a [DONE] line
\* cut by a boundary yields no event and no termination, and the frames
\* after it are processed.
C19_ChunksIndependent ==
  (stream /\ requests # <<>>) =>
    /\ IsPrefix(events, PerChunk(received))
    /\ pc \in {"read", "done"} => events = PerChunk(received)
    /\ (pc = "read" /\ received = <<SplitFrameHead, SplitFrameTail>>)
         => events = <<<<"answer", Str("z")>>>>
    /\ received = <<SplitFrameTail, SplitDoneTail>>
         => /\ pc = "done" => transport = "ended"
            /\ pc = "read" => events = <<<<"answer", Str("z")>>, <<"answer", Str("w")>>>>

\* A termination line cut by the boundary has passed: both chunks are
\* processed to their ends and the loop waits for a third.
C19_Witness ==
  /\ stream /\ pc = "read" /\ received = <<SplitFrameTail, SplitDoneTail>>
  /\ events = <<<<"answer", Str("z")>>, <<"answer", Str("w")>>>>
  /\ taken = AllLines(received)

(* ------------------------------ shape of events ------------------------ *)

\* Every event is a pair ("answer", content) with content non-empty.
C20_Events ==
  \A k \in 1..Len(events) :
    /\ Len(events[k]) = 2
    /\ events[k][1] = "answer"
    /\ Truthy(events[k][2])

\* A chunk of blanks and newlines only.
Blank(chunk) == Decodable(chunk) /\ Strip(chunk) = <<>>

C20_Step ==
  \* a whitespace-only chunk emits nothing; the streaming loop skips it whole
  /\ (received' # received /\ Blank(Last(received')))
       => (events' = events /\ (stream => UNCHANGED <<pc, log, lines, lineNo, taken>>))
  \* a frame that is no content frame of the running branch (content
  \* missing, null or '') emits nothing
  /\ (stream /\ taken' # taken /\ ~IsContentLine(StreamBranch, Last(taken')))
       => events' = events
  \* nor does a body that is no content body of the running branch
  /\ ( /\ ~stream /\ received' # received
       /\ ~(IsJsonChunk(Last(received'))
            /\ IsContentBody(BodyBranch, ChunkJson(Last(received')))) )
       => events' = events

\* C20: every event ever emitted, in either mode and dialect, is a pair of
\* the literal "answer" and a non-empty content; frames and bodies whose
\* content is missing, null or the empty string, and whitespace-only
\* chunks, emit nothing.
C20_OnlyNonEmptyAnswers == []C20_Events /\ [][C20_Step]_vars

\* The frames with missing, null and empty content have all been taken
\* after an event, and none of them added one.
C20_Witness ==
  /\ stream /\ pc = "read" /\ Len(received) = 2 /\ received[2] = EmptyFrames
  /\ Len(events) = 1 /\ taken = AllLines(received)

====
